---- MODULE Spec2Model ----
(***************************************************************************)
(* HYBRIDJOIN stream-relation join (src/hybrid_join.py) together with the  *)
(* producer thread that feeds it (src/main.py, stream_transactional_data). *)
(*                                                                         *)
(* Two threads run concurrently: the producer reads rows of the            *)
(* transactional file and submits them with add_stream_tuple, then sets    *)
(* stop_flag; the engine runs execute().  The engine's position inside     *)
(* execute() is pc, with one label per place where it reads state shared   *)
(* with the producer (stream_buffer, stop_flag).                           *)
(***************************************************************************)
EXTENDS Integers, Sequences, FiniteSets, TLC

\* ---------------------------------------------------------------- bounds
MaxTuples == 2     \* the transactional file has at most MaxTuples rows
MaxRel    == 2     \* the relation has at most MaxRel records
MaxParts  == 4     \* partitions_processed is recorded exactly up to MaxParts

\* Configurations the runs are drawn from (constructor arguments of HybridJoin
\* and the maxsize of its queue.Queue, scaled down from 10000 / 500 / 5000).
SlotChoices  == {1, 2}
PartChoices  == {1, 2}
QueueChoices == {1, 2}

\* ------------------------------------------------------------ value sets
NoneKey    == "<None>"           \* Python's None as returned by _get_oldest_key
StreamKeys == {"", "A", "B"}     \* Customer_ID values of the stream rows
RelKeys    == {"A", "B"}         \* Customer_ID values of the relation records

SeqsUpTo(S, n) == UNION {[1..m -> S] : m \in 0..n}

\* A row of the transactional file as stream_transactional_data builds it.
StreamTuple(i, k) == [orderID |-> i, Customer_ID |-> k, Product_ID |-> 0]

\* A record of relation_data as transform_and_load_data builds it
\* (customer fields merged with product fields).
RelationRecord(i, k) == [Customer_ID |-> k, Product_ID |-> i, Customer_Name |-> "n"]

MkSource(ks)   == [i \in 1..Len(ks) |-> StreamTuple(i, ks[i])]

\* A row of relation_data that is not a mapping: row.get raises on it.
BadRow  == [raises |-> "AttributeError"]
BadMark == "<bad>"
RelRows == RelKeys \cup {BadMark}

IsDict(row) == "raises" \notin DOMAIN row

MkRelation(ks) ==
    [i \in 1..Len(ks) |-> IF ks[i] = BadMark THEN BadRow ELSE RelationRecord(i, ks[i])]

\* str(row.get('Customer_ID', ''))
JoinKey(row) == IF "Customer_ID" \in DOMAIN row THEN row.Customer_ID ELSE ""

VARIABLES
    hS, vP, maxsize, hashOf, relation_data,   \* configuration and inputs of the run
    source, ppc, accepted,                    \* producer thread
    stream_buffer, stop_flag,                 \* shared between the threads
    hash_table, key_queue, key_queue_map, disk_buffer, join_output,
    w, tuples_joined, tuples_processed, partitions_processed,
    pc, loaded, oldest_key,                   \* engine thread inside execute()
    prefilled, serviced, appended             \* history of the run

config == <<hS, vP, maxsize, hashOf, relation_data>>
prod   == <<source, ppc, accepted>>
shared == <<stream_buffer, stop_flag>>
index  == <<hash_table, key_queue, key_queue_map>>
stats  == <<tuples_joined, tuples_processed, partitions_processed>>
hist   == <<prefilled, serviced, appended>>
vars   == <<hS, vP, maxsize, hashOf, relation_data, source, ppc, accepted,
            stream_buffer, stop_flag, hash_table, key_queue, key_queue_map,
            disk_buffer, join_output, w, tuples_joined, tuples_processed,
            partitions_processed, pc, loaded, oldest_key,
            prefilled, serviced, appended>>

\* ------------------------------------------------------------------ Init
\* HybridJoin.__init__ followed by the choice of the run's inputs.
EngineInit ==
    /\ w = hS
    /\ stream_buffer = <<>>
    /\ hash_table = <<>>
    /\ key_queue = <<>>
    /\ key_queue_map = <<>>
    /\ disk_buffer = <<>>
    /\ join_output = <<>>
    /\ tuples_joined = 0
    /\ tuples_processed = 0
    /\ partitions_processed = 0
    /\ stop_flag = FALSE
    /\ ppc = "read"
    /\ accepted = 0
    /\ pc = "start"
    /\ loaded = 0
    /\ oldest_key = NoneKey
    /\ prefilled = FALSE
    /\ serviced = {}
    /\ appended = {}

Init ==
    /\ hS \in SlotChoices
    /\ vP \in PartChoices
    /\ maxsize \in QueueChoices
    /\ hashOf \in [StreamKeys \cup RelKeys -> 0..(hS - 1)]
    /\ relation_data \in {MkRelation(ks) : ks \in SeqsUpTo(RelRows, MaxRel)}
    /\ source \in {MkSource(ks) : ks \in SeqsUpTo(StreamKeys, MaxTuples)}
    /\ EngineInit

\* -------------------------------------------------------------- helpers
Min(a, b) == IF a < b THEN a ELSE b

\* Mutant of RemoveFirst: every occurrence of k is dropped.
RemoveAll(q, k) == SelectSeq(q, LAMBDA x : x # k)

\* deque.remove(k): drops the first occurrence of k.
RECURSIVE RemoveFirst(_, _)
RemoveFirst(q, k) ==
    IF q = <<>> THEN <<>>
    ELSE IF Head(q) = k THEN Tail(q)
    ELSE <<Head(q)>> \o RemoveFirst(Tail(q), k)

\* del d[k] on a dict modelled as a function.
DictDel(d, k) == [x \in DOMAIN d \ {k} |-> d[x]]

\* d[k] = v on a dict modelled as a function.
DictSet(d, k, v) == [x \in DOMAIN d \cup {k} |-> IF x = k THEN v ELSE d[x]]

\* Number of stream tuples resident in the hash index, over all slots.
RECURSIVE SumLen(_, _)
SumLen(ht, S) ==
    IF S = {} THEN 0
    ELSE LET s == CHOOSE x \in S : TRUE
         IN  Len(ht[s]) + SumLen(ht, S \ {s})

Resident(ht) == SumLen(ht, DOMAIN ht)

\* hash(key) % self.hS
HashFunction(key) == hashOf[key] % hS

\* ------------------------------------------------------------- producer
\* add_stream_tuple, put_nowait succeeds.
AddStreamTuple ==
    /\ ppc = "read"
    /\ source # <<>>
    /\ Len(stream_buffer) < maxsize
    /\ stream_buffer' = Append(stream_buffer, Head(source))
    /\ source' = Tail(source)
    /\ accepted' = accepted + 1
    /\ UNCHANGED <<config, ppc, stop_flag, index, disk_buffer, join_output, w,
                   stats, pc, loaded, oldest_key, hist>>

\* add_stream_tuple, put_nowait raises queue.Full: the caller blocks in
\* put(tuple_data, timeout=10).
BufferFull ==
    /\ ppc = "read"
    /\ source # <<>>
    /\ Len(stream_buffer) >= maxsize
    /\ ppc' = "wait"
    /\ UNCHANGED <<config, source, accepted, shared, index, disk_buffer,
                   join_output, w, stats, pc, loaded, oldest_key, hist>>

\* The blocked put completes because the engine freed a slot.
PutAfterWait ==
    /\ ppc = "wait"
    /\ Len(stream_buffer) < maxsize
    /\ stream_buffer' = Append(stream_buffer, Head(source))
    /\ source' = Tail(source)
    /\ accepted' = accepted + 1
    /\ ppc' = "read"
    /\ UNCHANGED <<config, stop_flag, index, disk_buffer, join_output, w,
                   stats, pc, loaded, oldest_key, hist>>

\* Mutant of PutTimeout: the timed-out tuple is dropped and the call returns.
PutTimeoutDrop ==
    /\ ppc = "wait"
    /\ Len(stream_buffer) >= maxsize
    /\ source' = Tail(source)
    /\ accepted' = accepted + 1
    /\ ppc' = "read"
    /\ UNCHANGED <<config, shared, index, disk_buffer, join_output, w, stats,
                   pc, loaded, oldest_key, hist>>

\* The blocked put times out: queue.Full is re-raised to the caller.
PutTimeout ==
    /\ ppc = "wait"
    /\ Len(stream_buffer) >= maxsize
    /\ ppc' = "raised"
    /\ UNCHANGED <<config, source, accepted, shared, index, disk_buffer,
                   join_output, w, stats, pc, loaded, oldest_key, hist>>

\* stream_transactional_data's finally block: the file is exhausted, or an
\* exception left the read loop.
SignalCompletion ==
    /\ \/ ppc = "read" /\ source = <<>>
       \/ ppc = "raised"
    /\ stop_flag' = TRUE
    /\ ppc' = "done"
    /\ UNCHANGED <<config, source, accepted, stream_buffer, index, disk_buffer,
                   join_output, w, stats, pc, loaded, oldest_key, hist>>

\* --------------------------------------------------------------- engine
\* execute(), lines 222-234: the engine thread enters execute().
\* prefilled records whether the producer had already finished by then.
ExecuteStart ==
    /\ pc = "start"
    /\ pc' = "head"
    /\ prefilled' = stop_flag
    /\ UNCHANGED <<config, prod, shared, index, disk_buffer, join_output, w,
                   stats, loaded, oldest_key, serviced, appended>>

\* Line 235: while not self.stop_flag or not self.stream_buffer.empty()
LoopHead ==
    /\ pc = "head"
    /\ IF ~stop_flag \/ stream_buffer # <<>>
       THEN pc' = "load" /\ loaded' = 0
       ELSE pc' = "done" /\ UNCHANGED loaded
    /\ UNCHANGED <<config, prod, shared, index, disk_buffer, join_output, w,
                   stats, oldest_key, hist>>

\* Mutant of SlotAppend: the tuple is put at the front of the slot's list.
SlotPrepend(ht, slot, t) ==
    IF slot \in DOMAIN ht
    THEN [ht EXCEPT ![slot] = <<t>> \o @]
    ELSE [x \in DOMAIN ht \cup {slot} |-> IF x = slot THEN <<t>> ELSE ht[x]]

\* hash_table[slot].append(tuple_data) on the defaultdict(list).
SlotAppend(ht, slot, t) ==
    IF slot \in DOMAIN ht
    THEN [ht EXCEPT ![slot] = Append(@, t)]
    ELSE [x \in DOMAIN ht \cup {slot} |-> IF x = slot THEN <<t>> ELSE ht[x]]

\* _load_stream_tuples, one pass of the while loop (lines 113-129);
\* loaded is the local tuples_loaded.
LoadStreamTuple ==
    /\ pc = "load"
    /\ loaded < w
    /\ stream_buffer # <<>>
    /\ LET tuple_data == Head(stream_buffer)
           join_key   == JoinKey(tuple_data)
           slot       == HashFunction(join_key)
       IN  /\ stream_buffer' = Tail(stream_buffer)
           /\ hash_table' = SlotAppend(hash_table, slot, tuple_data)
           /\ key_queue' = Append(key_queue, join_key)
           /\ key_queue_map' = DictSet(key_queue_map, join_key, tuple_data)
           /\ appended' = appended \cup {join_key}
    /\ loaded' = loaded + 1
    /\ tuples_processed' = tuples_processed + 1
    /\ UNCHANGED <<config, prod, stop_flag, disk_buffer, join_output, w,
                   tuples_joined, partitions_processed, pc, oldest_key,
                   prefilled, serviced>>

\* Mutant of LoadStreamEnd: the budget is not consumed by the load.
LoadStreamEndKeepW ==
    /\ pc = "load"
    /\ ~(loaded < w /\ stream_buffer # <<>>)
    /\ pc' = "chk"
    /\ UNCHANGED <<config, prod, shared, index, disk_buffer, join_output, w,
                   stats, loaded, oldest_key, hist>>

\* _load_stream_tuples, the loop condition fails (line 113), then
\* lines 134-138: self.w = 0, return tuples_loaded.
LoadStreamEnd ==
    /\ pc = "load"
    /\ ~(loaded < w /\ stream_buffer # <<>>)
    /\ w' = 0
    /\ pc' = "chk"
    /\ UNCHANGED <<config, prod, shared, index, disk_buffer, join_output,
                   stats, loaded, oldest_key, hist>>

\* Lines 241-245: if loaded == 0 and self.stream_buffer.empty():
\*                    if not self.key_queue: break
CheckIdle ==
    /\ pc = "chk"
    /\ IF loaded = 0 /\ stream_buffer = <<>> /\ key_queue = <<>>
       THEN pc' = "done"
       ELSE pc' = "sched"
    /\ UNCHANGED <<config, prod, shared, index, disk_buffer, join_output, w,
                   stats, loaded, oldest_key, hist>>

\* Mutant of GetOldestKey: the newest entry is returned instead of the oldest.
GetNewestKey == IF key_queue # <<>> THEN key_queue[Len(key_queue)] ELSE NoneKey

\* _get_oldest_key
GetOldestKey == IF key_queue # <<>> THEN key_queue[1] ELSE NoneKey

\* Python truth value of oldest_key: None and '' are false.
Falsy(k) == k = NoneKey \/ k = ""

\* Mutant of Schedule: the probe runs without a partition load, against the
\* partition of the iteration before.
ScheduleSkipPartition ==
    /\ pc = "sched"
    /\ oldest_key' = GetOldestKey
    /\ IF Falsy(GetOldestKey)
       THEN IF stop_flag THEN pc' = "done" ELSE pc' = "head"
       ELSE pc' = "probe"
    /\ UNCHANGED <<config, prod, shared, index, disk_buffer, join_output, w,
                   stats, loaded, hist>>

\* Lines 248-253: oldest_key = self._get_oldest_key(); if not oldest_key:
\* break when stop_flag is set, otherwise sleep and continue.
Schedule ==
    /\ pc = "sched"
    /\ oldest_key' = GetOldestKey
    /\ IF Falsy(GetOldestKey)
       THEN IF stop_flag THEN pc' = "done" ELSE pc' = "head"
       ELSE pc' = "part"
    /\ UNCHANGED <<config, prod, shared, index, disk_buffer, join_output, w,
                   stats, loaded, hist>>

\* Mutant of ScanRelation: the next partition_size records are taken in scan
\* order, whatever their key.
RECURSIVE ScanRelationAnyKey(_, _, _, _)
ScanRelationAnyKey(rel, key, i, buf) ==
    IF i > Len(rel) THEN [buf |-> buf, raised |-> FALSE]
    ELSE IF ~IsDict(rel[i]) THEN [buf |-> buf, raised |-> TRUE]
    ELSE LET buf2 == IF Len(buf) < vP THEN Append(buf, rel[i]) ELSE buf
         IN  IF Len(buf2) >= vP THEN [buf |-> buf2, raised |-> FALSE]
             ELSE ScanRelationAnyKey(rel, key, i + 1, buf2)

\* Mutant of ScanRelation: the scan does not stop at partition_size records.
RECURSIVE ScanRelationNoLimit(_, _, _, _)
ScanRelationNoLimit(rel, key, i, buf) ==
    IF i > Len(rel) THEN [buf |-> buf, raised |-> FALSE]
    ELSE IF ~IsDict(rel[i]) THEN [buf |-> buf, raised |-> TRUE]
    ELSE ScanRelationNoLimit(rel, key, i + 1,
            IF JoinKey(rel[i]) = key THEN Append(buf, rel[i]) ELSE buf)

\* The for loop of _load_disk_partition (lines 162-168), from row i on:
\* the records collected, and whether a row raised.
RECURSIVE ScanRelation(_, _, _, _)
ScanRelation(rel, key, i, buf) ==
    IF i > Len(rel) THEN [buf |-> buf, raised |-> FALSE]
    ELSE IF ~IsDict(rel[i]) THEN [buf |-> buf, raised |-> TRUE]
    ELSE LET buf2 == IF JoinKey(rel[i]) = key /\ Len(buf) < vP
                     THEN Append(buf, rel[i]) ELSE buf
         IN  IF Len(buf2) >= vP THEN [buf |-> buf2, raised |-> FALSE]
             ELSE ScanRelation(rel, key, i + 1, buf2)

\* Mutant of LoadDiskPartition: a failing scan is taken as "no matches".
LoadDiskPartitionSwallow ==
    /\ pc = "part"
    /\ LET r == ScanRelation(relation_data, oldest_key, 1, <<>>)
       IN  disk_buffer' = IF r.raised THEN <<>> ELSE r.buf
    /\ partitions_processed' = Min(partitions_processed + 1, MaxParts)
    /\ serviced' = serviced \cup {oldest_key}
    /\ pc' = "probe"
    /\ UNCHANGED <<config, prod, shared, index, join_output, w, tuples_joined,
                   tuples_processed, loaded, oldest_key, prefilled, appended>>

\* Mutant of LoadDiskPartition: a load that finds no record is not counted.
LoadDiskPartitionCountMatches ==
    /\ pc = "part"
    /\ LET r == ScanRelation(relation_data, oldest_key, 1, <<>>)
       IN  /\ disk_buffer' = r.buf
           /\ IF r.raised
              THEN /\ pc' = "failed"
                   /\ UNCHANGED <<partitions_processed, serviced>>
              ELSE /\ pc' = "probe"
                   /\ partitions_processed' =
                         IF r.buf = <<>> THEN partitions_processed
                         ELSE Min(partitions_processed + 1, MaxParts)
                   /\ serviced' = serviced \cup {oldest_key}
    /\ UNCHANGED <<config, prod, shared, index, join_output, w, tuples_joined,
                   tuples_processed, loaded, oldest_key, prefilled, appended>>

\* Line 256: self._load_disk_partition(relation_data, oldest_key).  Nothing in
\* _load_disk_partition or execute() catches an exception of the scan: it
\* leaves execute() (pc = "failed") before partitions_processed is counted.
LoadDiskPartition ==
    /\ pc = "part"
    /\ LET r == ScanRelation(relation_data, oldest_key, 1, <<>>)
       IN  /\ disk_buffer' = r.buf
           /\ IF r.raised
              THEN /\ pc' = "failed"
                   /\ UNCHANGED <<partitions_processed, serviced>>
              ELSE /\ pc' = "probe"
                   /\ partitions_processed' = Min(partitions_processed + 1, MaxParts)
                   /\ serviced' = serviced \cup {oldest_key}
    /\ UNCHANGED <<config, prod, shared, index, join_output, w, tuples_joined,
                   tuples_processed, loaded, oldest_key, prefilled, appended>>

\* Mutant of Merge: on a shared field the stream tuple's value wins.
MergeStreamWins(stream_tuple, disk_tuple) ==
    [f \in DOMAIN stream_tuple \cup DOMAIN disk_tuple |->
        IF f \in DOMAIN stream_tuple THEN stream_tuple[f] ELSE disk_tuple[f]]

\* {**stream_tuple, **disk_tuple}
Merge(stream_tuple, disk_tuple) ==
    [f \in DOMAIN stream_tuple \cup DOMAIN disk_tuple |->
        IF f \in DOMAIN disk_tuple THEN disk_tuple[f] ELSE stream_tuple[f]]

\* Mutant of Matches: every tuple of the slot is joined, whatever its key.
MatchesWholeSlot(lst, disk_tuple) ==
    [i \in 1..Len(lst) |-> Merge(lst[i], disk_tuple)]

\* Lines 190-199: the joined records one relation record yields from a slot.
Matches(lst, disk_tuple) ==
    LET hits == SelectSeq(lst, LAMBDA t : JoinKey(t) = JoinKey(disk_tuple))
    IN  [i \in 1..Len(hits) |-> Merge(hits[i], disk_tuple)]

\* Mutant of RemoveMatched: the whole slot is cleared.
RemoveWholeSlot(lst, join_key) == <<>>

\* Mutant of RemoveMatched: matched tuples stay in the slot.
RemoveNone(lst, join_key) == lst

\* Lines 202-205: the slot's list without the tuples of join_key.
RemoveMatched(lst, join_key) ==
    SelectSeq(lst, LAMBDA t : JoinKey(t) # join_key)

\* Mutant of Emit: the output is rebuilt from the newest records.
EmitReplace(out, emitted) == emitted

\* Line 197: self.join_output.append(joined_record), for each match in turn.
Emit(out, emitted) == out \o emitted

\* Mutant of SlotStore: an emptied slot stays in the hash table.
SlotStoreKeepEmpty(ht, slot, rest) == [ht EXCEPT ![slot] = rest]

\* Lines 202-205 and 213-214: the slot keeps the tuples that did not match,
\* and is deleted when none is left.
SlotStore(ht, slot, rest) ==
    IF rest = <<>> THEN DictDel(ht, slot) ELSE [ht EXCEPT ![slot] = rest]

\* Lines 184-214: the body of the for loop of _probe_and_join for one
\* relation record, on st = [ht, kq, kqm, out, matched].
ProbeOne(st, disk_tuple) ==
    LET join_key == JoinKey(disk_tuple)
        slot     == HashFunction(join_key)
    IN  IF slot \notin DOMAIN st.ht THEN st
        ELSE
          LET emitted == Matches(st.ht[slot], disk_tuple)
              rest    == RemoveMatched(st.ht[slot], join_key)
              inmap   == join_key \in DOMAIN st.kqm
          IN  [ht      |-> SlotStore(st.ht, slot, rest),
               kq      |-> IF inmap THEN RemoveFirst(st.kq, join_key) ELSE st.kq,
               kqm     |-> IF inmap THEN DictDel(st.kqm, join_key) ELSE st.kqm,
               out     |-> Emit(st.out, emitted),
               matched |-> st.matched + Len(emitted)]

\* The for loop of _probe_and_join over disk_buffer, from record i on.
RECURSIVE ProbeFrom(_, _, _)
ProbeFrom(st, buf, i) ==
    IF i > Len(buf) THEN st
    ELSE ProbeFrom(ProbeOne(st, buf[i]), buf, i + 1)

\* Mutant of Replenish: the probe resets the budget to the full index size.
ReplenishFull(budget, matched_count) == hS

\* Line 217: self.w += matched_count
Replenish(budget, matched_count) == budget + matched_count

\* Line 259: matched = self._probe_and_join()
ProbeAndJoin ==
    /\ pc = "probe"
    /\ LET st == ProbeFrom([ht |-> hash_table, kq |-> key_queue,
                            kqm |-> key_queue_map, out |-> join_output,
                            matched |-> 0], disk_buffer, 1)
       IN  /\ hash_table' = st.ht
           /\ key_queue' = st.kq
           /\ key_queue_map' = st.kqm
           /\ join_output' = st.out
           /\ tuples_joined' = tuples_joined + st.matched
           /\ w' = Replenish(w, st.matched)
    /\ pc' = "tail"
    /\ UNCHANGED <<config, prod, shared, disk_buffer, tuples_processed,
                   partitions_processed, loaded, oldest_key, hist>>

\* Mutant of LoopTail: the engine clears the completion flag when it breaks.
LoopTailClearFlag ==
    /\ pc = "tail"
    /\ IF stop_flag /\ key_queue = <<>>
       THEN pc' = "done" /\ stop_flag' = FALSE
       ELSE pc' = "head" /\ UNCHANGED stop_flag
    /\ UNCHANGED <<config, prod, stream_buffer, index, disk_buffer, join_output,
                   w, stats, loaded, oldest_key, hist>>

\* Lines 263-264: if self.stop_flag and not self.key_queue: break
LoopTail ==
    /\ pc = "tail"
    /\ IF stop_flag /\ key_queue = <<>>
       THEN pc' = "done"
       ELSE pc' = "head"
    /\ UNCHANGED <<config, prod, shared, index, disk_buffer, join_output, w,
                   stats, loaded, oldest_key, hist>>

\* --------------------------------------------------------- specification
Producer ==
    \/ AddStreamTuple
    \/ BufferFull
    \/ PutAfterWait
    \/ PutTimeout
    \/ SignalCompletion

Engine ==
    \/ ExecuteStart
    \/ LoopHead
    \/ LoadStreamTuple
    \/ LoadStreamEnd
    \/ CheckIdle
    \/ Schedule
    \/ LoadDiskPartition
    \/ ProbeAndJoin
    \/ LoopTail

Next ==
    \/ AddStreamTuple
    \/ BufferFull
    \/ PutAfterWait
    \/ PutTimeout
    \/ SignalCompletion
    \/ ExecuteStart
    \/ LoopHead
    \/ LoadStreamTuple
    \/ LoadStreamEnd
    \/ CheckIdle
    \/ Schedule
    \/ LoadDiskPartition
    \/ ProbeAndJoin
    \/ LoopTail

Spec == Init /\ [][Next]_vars

\* The example run of the specification's testable properties:
\* hash_slots = 4, partition_size = 2, stream keys A, B, A, C and a relation
\* with two records for A and one for C.
ExKeys == {"A", "B", "C"}

InitEx ==
    /\ hS = 4
    /\ vP = 2
    /\ maxsize \in {2, 4}
    /\ hashOf \in [ExKeys -> 0..3]
    /\ relation_data = MkRelation(<<"A", "A", "C">>)
    /\ source = MkSource(<<"A", "B", "A", "C">>)
    /\ EngineInit

SpecEx == InitEx /\ [][Next]_vars

\* Both threads keep running while they have a step to take.
FairSpec == Spec /\ WF_vars(Producer) /\ WF_vars(Engine)

\* ------------------------------------------------------------------------
\* C1 (termination): once the producer has set the completion flag, a fairly
\* scheduled engine eventually returns from execute().
C1_Termination == stop_flag ~> (pc = "done")

\* C2 (capacity invariant): the number of stream tuples resident in the
\* hash index, summed over all slots, never exceeds hash_slots.
C2_Capacity == Resident(hash_table) <= hS

\* C2 witness: a load has filled an index of two slots to capacity.
C2_Witness == hS = 2 /\ Resident(hash_table) = 2 /\ pc = "chk"

\* C3 (terminal condition): execute() leaves its loop only when the
\* completion flag is set, the intake queue is empty and the tracker is empty.
C3_TerminalCondition ==
    [][(pc # "done" /\ pc' = "done")
        => (stop_flag /\ stream_buffer = <<>> /\ key_queue = <<>>)]_vars

\* C4 (no exit before completion): when a load admitted nothing, the queue
\* and the tracker are empty and completion has not been signaled, the engine
\* does not return.
C4_NoExitBeforeCompletion ==
    [][(pc = "chk" /\ loaded = 0 /\ stream_buffer = <<>> /\ key_queue = <<>>
        /\ ~stop_flag) => pc' # "done"]_vars

\* C5 (no tuple lost): when the producer has finished and execute() has
\* returned, every accepted tuple has been dequeued and inserted in the index.
C5_NoTupleLost ==
    (stop_flag /\ pc = "done")
        => (stream_buffer = <<>> /\ tuples_processed = accepted)

\* C6 (bounded service latency): when the producer has finished and
\* execute() has returned, a partition has been loaded for every key that was
\* appended to the tracker.
C6_EveryKeyServiced ==
    (stop_flag /\ pc = "done") => appended \subseteq serviced

\* C7 (example scenario): with all four tuples enqueued and completion
\* signaled before execute() starts, the run ends having loaded all four
\* tuples, serviced A, B and C in three partitions, and emitted the two A
\* tuples and the C tuple.
C7_ExampleScenario ==
    (pc = "done" /\ prefilled /\ accepted = 4)
        => /\ tuples_processed = 4
           /\ partitions_processed = 3
           /\ serviced = {"A", "B", "C"}
           /\ tuples_joined = 3

\* Position of the first entry for key k in tracker q.
FirstIndex(q, k) ==
    CHOOSE i \in 1..Len(q) : q[i] = k /\ \A j \in 1..(i - 1) : q[j] # k

\* C8 (FIFO service order): the key a partition is loaded for is the front
\* entry of the tracker, the materialized partition holds records of that key
\* only, and every key whose first tracker entry precedes it has already had
\* a partition loaded.
C8_FIFOService ==
    /\ pc = "part" => (key_queue # <<>> /\ oldest_key = key_queue[1])
    /\ pc = "probe" =>
          /\ key_queue # <<>>
          /\ oldest_key = key_queue[1]
          /\ \A i \in 1..Len(disk_buffer) : JoinKey(disk_buffer[i]) = key_queue[1]
          /\ \A i \in 1..Len(key_queue) :
                FirstIndex(key_queue, key_queue[i]) < FirstIndex(key_queue, oldest_key)
                    => key_queue[i] \in serviced

\* C8 witness: a partition was loaded for the front key while a different
\* key waits behind it.
C8_Witness ==
    /\ pc = "probe"
    /\ Len(key_queue) >= 2
    /\ key_queue[1] # key_queue[2]
    /\ disk_buffer # <<>>

\* The stream tuples resident in the hash index, as a set.
ResidentTuples ==
    UNION {{hash_table[s][i] : i \in 1..Len(hash_table[s])} : s \in DOMAIN hash_table}

\* C9 (idempotent emission): no two emitted records come from the same stream
\* tuple, and no emitted stream tuple is still resident in the hash index.
C9_IdempotentEmission ==
    /\ \A i, j \in 1..Len(join_output) :
          i # j => join_output[i].orderID # join_output[j].orderID
    /\ \A i \in 1..Len(join_output) :
          \A t \in ResidentTuples : t.orderID # join_output[i].orderID

\* C9 witness: a probe has run with a partition of two relation records of
\* the same key and emitted a record.
C9_Witness ==
    /\ pc = "tail"
    /\ Len(disk_buffer) = 2
    /\ JoinKey(disk_buffer[1]) = JoinKey(disk_buffer[2])
    /\ tuples_joined >= 1

\* C10 (conservation of counts): tuples_joined never exceeds tuples_processed.
C10_Conservation == tuples_joined <= tuples_processed

\* C10 witness: a probe has emitted every tuple loaded so far, from a slot
\* list of two tuples.
C10_Witness == pc = "tail" /\ tuples_joined = 2 /\ tuples_processed = 2

\* C11 (key soundness of output): every record a step appends to the output
\* is the merge of a stream tuple that was resident in the hash index and a
\* relation record of the current partition (a record of the relation) with
\* the same join key.
C11_KeySoundness ==
    [][\A n \in (Len(join_output) + 1)..Len(join_output') :
          \E t \in ResidentTuples : \E i \in 1..Len(disk_buffer) :
              /\ JoinKey(t) = JoinKey(disk_buffer[i])
              /\ join_output'[n] = Merge(t, disk_buffer[i])
              /\ t.orderID <= tuples_processed
              /\ \E j \in 1..Len(relation_data) : relation_data[j] = disk_buffer[i]]_vars

\* C11 witness: a probe has emitted a record while a tuple whose key has no
\* relation record stays resident, unemitted.
C11_Witness ==
    /\ pc = "tail"
    /\ join_output # <<>>
    /\ \E t \in ResidentTuples :
          \A j \in 1..Len(relation_data) :
              IsDict(relation_data[j]) => JoinKey(relation_data[j]) # JoinKey(t)

\* C12 (partition bound): the disk buffer never holds more than
\* partition_size records.
C12_PartitionBound == Len(disk_buffer) <= vP

\* C12 witness: a partition of one record was loaded from a relation that
\* holds two records of the key.
C12_Witness ==
    /\ pc = "probe"
    /\ vP = 1
    /\ Len(disk_buffer) = 1
    /\ Len(relation_data) = 2
    /\ \A j \in 1..2 : IsDict(relation_data[j]) /\ JoinKey(relation_data[j]) = oldest_key

\* C13 (backpressure): a submission to a full intake queue blocks; a blocked
\* submission ends in a raised failure only while the queue is still full, and
\* then the queue is unchanged and does not hold the tuple; once a slot is free
\* the blocked tuple is enqueued; and a call returns normally only by
\* enqueueing its tuple at the tail.
C13_Backpressure ==
    [][/\ (ppc = "read" /\ source # <<>> /\ Len(stream_buffer) >= maxsize /\ ppc' # ppc)
            => (ppc' = "wait" /\ UNCHANGED <<stream_buffer, source, accepted>>)
       /\ (ppc = "wait" /\ ppc' = "raised")
            => /\ Len(stream_buffer) >= maxsize
               /\ UNCHANGED <<stream_buffer, source, accepted>>
               /\ \A i \in 1..Len(stream_buffer') : stream_buffer'[i] # Head(source)
       /\ (ppc = "wait" /\ Len(stream_buffer) < maxsize /\ ppc' # ppc)
            => (ppc' = "read" /\ stream_buffer' = Append(stream_buffer, Head(source)))
       /\ (accepted' # accepted \/ source' # source)
            => /\ accepted' = accepted + 1
               /\ source' = Tail(source)
               /\ stream_buffer' = Append(stream_buffer, Head(source))]_vars

\* C13 witness: a blocked submission has timed out on a full queue and raised.
C13_Witness == ppc = "raised" /\ Len(stream_buffer) = maxsize /\ source # <<>>

\* C14 (empty join key is a valid key): when the front entry of the tracker
\* is the empty string, the scheduling step goes on to load a partition for it.
C14_EmptyKeyScheduled ==
    [][(pc = "sched" /\ key_queue # <<>> /\ key_queue[1] = "" /\ pc' # pc)
          => pc' = "part"]_vars

\* Whether the scan of the partition load about to run raises.
ScanRaises == ScanRelation(relation_data, oldest_key, 1, <<>>).raised

\* C15 (relation scan failure is fatal): when the scan of a partition load
\* raises, execute() ends in failure without counting the partition or probing,
\* and a failed run changes nothing of the engine afterwards.
C15_ScanFailureFatal ==
    [][/\ (pc = "part" /\ ScanRaises /\ pc' # pc)
            => /\ pc' = "failed"
               /\ UNCHANGED <<index, join_output, w, stats>>
       /\ pc = "failed"
            => /\ pc' = "failed"
               /\ UNCHANGED <<index, disk_buffer, join_output, w, stats>>]_vars

\* C15 witness: a partition load has failed on a row of the relation while a
\* stream tuple waits in the index.
C15_Witness == pc = "failed" /\ key_queue # <<>> /\ partitions_processed = 0

IsPrefix(a, b) == Len(a) <= Len(b) /\ SubSeq(b, 1, Len(a)) = a

\* C16 (append-only output): across every step the output sequence before
\* the step is a prefix of the output sequence after it.
C16_AppendOnly == [][IsPrefix(join_output, join_output')]_vars

\* C16 witness: two probes have each appended a record to the output.
C16_Witness ==
    /\ pc = "tail"
    /\ Len(join_output) = 2
    /\ join_output[1].Customer_ID # join_output[2].Customer_ID

\* C17 (tracker has no stale entries): every key in the tracker has a stream
\* tuple of that key resident in the hash index.
C17_NoStaleEntries ==
    \A i \in 1..Len(key_queue) :
        \E t \in ResidentTuples : JoinKey(t) = key_queue[i]

\* C18 (replenishment equals eviction): a probe raises w by exactly the number
\* of tuples it removed from the hash index, which is also the number of
\* records it emitted and counted as joined.
C18_ReplenishEqualsEviction ==
    [][(pc = "probe" /\ pc' = "tail")
          => LET evicted == Resident(hash_table) - Resident(hash_table')
             IN  /\ w' = w + evicted
                 /\ tuples_joined' = tuples_joined + evicted
                 /\ Len(join_output') = Len(join_output) + evicted]_vars

\* C18 witness: a probe with two relation records of one key has evicted two
\* tuples and raised w from 0 to 2.
C18_Witness ==
    /\ pc = "tail"
    /\ w = 2
    /\ Len(disk_buffer) = 2
    /\ tuples_joined = 2

\* C19 as claimed (capacity budget range): 0 <= w <= hS and w plus the
\* resident tuples is at most hS, in every reachable state.
C19_BudgetRange ==
    /\ 0 <= w
    /\ w <= hS
    /\ w + Resident(hash_table) <= hS

\* C19 as amended: 0 <= w <= hS in every reachable state, and w plus the
\* resident tuples is at most hS outside a running load; while a load runs, w
\* is not yet consumed, and the bound holds once the tuples this load has
\* admitted so far are discounted.
C19_BudgetRangeAmended ==
    /\ 0 <= w
    /\ w <= hS
    /\ pc # "load" => w + Resident(hash_table) <= hS
    /\ pc = "load" => w + Resident(hash_table) - loaded <= hS

\* C19 witness: a probe has replenished part of the budget while another
\* tuple stays resident.
C19_Witness ==
    /\ pc = "tail"
    /\ w = 1
    /\ Resident(hash_table) = 1
    /\ hS = 2

\* C20 (load phase): each pass of a load dequeues the head of the intake
\* queue while fewer than w tuples were admitted, appends it to the list of
\* slot hash(key) mod hS, leaving the other slots alone, appends its key to the
\* tail of the tracker and counts it once in tuples_loaded and
\* tuples_processed; the load ends only when w tuples were admitted or the
\* queue is empty, and leaves w = 0.
C20_LoadPhase ==
    [][/\ (pc = "load" /\ loaded' # loaded)
            => LET t    == Head(stream_buffer)
                   k    == JoinKey(t)
                   slot == hashOf[k] % hS
                   old  == IF slot \in DOMAIN hash_table THEN hash_table[slot] ELSE <<>>
               IN  /\ loaded < w
                   /\ stream_buffer # <<>>
                   /\ stream_buffer' = Tail(stream_buffer)
                   /\ DOMAIN hash_table' = DOMAIN hash_table \cup {slot}
                   /\ hash_table'[slot] = old \o <<t>>
                   /\ \A s \in DOMAIN hash_table \ {slot} : hash_table'[s] = hash_table[s]
                   /\ key_queue' = key_queue \o <<k>>
                   /\ loaded' = loaded + 1
                   /\ tuples_processed' = tuples_processed + 1
                   /\ w' = w
                   /\ pc' = "load"
       /\ (pc = "load" /\ pc' # pc)
            => /\ pc' = "chk"
               /\ loaded = w \/ stream_buffer = <<>>
               /\ loaded <= w
               /\ w' = 0
               /\ UNCHANGED <<loaded, tuples_processed, stream_buffer, index>>
       /\ (pc # "load" /\ pc' = "load") => loaded' = 0]_vars

\* C20 witness: a load has ended on an empty queue after admitting one tuple
\* of a budget of two, and w is 0.
C20_Witness ==
    /\ pc = "chk"
    /\ hS = 2
    /\ loaded = 1
    /\ tuples_processed = 1
    /\ stream_buffer = <<>>
    /\ w = 0

\* The relation records of key k, in scan order.
RecordsOfKey(k) ==
    SelectSeq(relation_data, LAMBDA r : IsDict(r) /\ JoinKey(r) = k)

\* C21: a _load_disk_partition(relation, k) call that returns leaves in the
\* disk buffer exactly the first min(vP, n) relation records of key k, in scan
\* order (n = number of relation records of key k): no record of another key
\* and nothing of the previous partition; no step modifies the relation.
C21_PartitionLoaderResult ==
    [][ /\ relation_data' = relation_data
        /\ (pc = "part" /\ pc' = "probe") =>
              LET m == RecordsOfKey(oldest_key)
              IN  disk_buffer' = SubSeq(m, 1, Min(vP, Len(m))) ]_vars

\* C21 witness: a second partition load has skipped a record of another key
\* and replaced the previous partition, which held that other record.
C21_Witness ==
    /\ pc = "probe"
    /\ partitions_processed = 2
    /\ Len(relation_data) = 2
    /\ IsDict(relation_data[1])
    /\ JoinKey(relation_data[1]) # oldest_key
    /\ disk_buffer = <<relation_data[2]>>
    /\ relation_data[1].Customer_ID \in serviced

OtherKeys(q, k) == SelectSeq(q, LAMBDA x : x # k)

\* The tuples of a slot list whose key is not k, in order.
OtherTuples(lst, k) == SelectSeq(lst, LAMBDA t : JoinKey(t) # k)

\* C23 (collision safety): a probe for key k emits and evicts only tuples of
\* key k.  The tuples of any other key, also those sharing a slot with k, stay
\* in their slot in the same order, none of them is emitted, and the tracker
\* entries and key_queue_map entries of other keys are left as they were.
C23_CollisionSafety ==
    [][ (pc = "probe" /\ pc' = "tail") =>
          /\ \A s \in DOMAIN hash_table :
                OtherTuples(hash_table[s], oldest_key) =
                    IF s \in DOMAIN hash_table'
                    THEN OtherTuples(hash_table'[s], oldest_key)
                    ELSE <<>>
          /\ \A i \in (Len(join_output) + 1)..Len(join_output') :
                /\ join_output'[i].Customer_ID = oldest_key
                /\ \A t \in ResidentTuples :
                      JoinKey(t) # oldest_key => t.orderID # join_output'[i].orderID
          /\ OtherKeys(key_queue', oldest_key) = OtherKeys(key_queue, oldest_key)
          /\ \A k \in DOMAIN key_queue_map \ {oldest_key} :
                k \in DOMAIN key_queue_map' /\ key_queue_map'[k] = key_queue_map[k]
      ]_vars

\* C23 witness: the first probe has emitted a record of the front key from a
\* slot that a resident tuple of another key shares.
C23_Witness ==
    /\ pc = "tail"
    /\ partitions_processed = 1
    /\ join_output # <<>>
    /\ join_output[1].Customer_ID = oldest_key
    /\ \E t \in ResidentTuples :
          /\ JoinKey(t) # oldest_key
          /\ HashFunction(JoinKey(t)) = HashFunction(oldest_key)
          /\ JoinKey(t) \in DOMAIN key_queue_map
          /\ \E i \in 1..Len(key_queue) : key_queue[i] = JoinKey(t)

\* get_statistics: 'hash_table_size': len(self.hash_table)
hash_table_size == Cardinality(DOMAIN hash_table)

\* C24 (no empty slots): every slot present in the hash index holds a
\* non-empty list, so hash_table_size is the number of slots that some
\* resident tuple hashes to.
C24_NoEmptySlots ==
    /\ \A s \in DOMAIN hash_table : hash_table[s] # <<>>
    /\ hash_table_size =
          Cardinality({HashFunction(JoinKey(t)) : t \in ResidentTuples})

\* C24 witness: the probe has evicted the last tuple of the front key's slot
\* and the slot is gone from the hash index.
C24_Witness ==
    /\ pc = "tail"
    /\ partitions_processed = 1
    /\ join_output # <<>>
    /\ HashFunction(oldest_key) \notin DOMAIN hash_table
    /\ hash_table_size = 0

\* The phases of execute() as positions of the engine: "load" and "chk" are
\* LOADING (lines 240-243), "sched" is SCHEDULING (248-253), "part" is
\* PARTITIONING (256), "probe" is PROBING (259); "head" and "tail" are the
\* loop condition (235) and the break test after the probe (263).
\* C25: the phases occur only in the order LOADING, SCHEDULING, PARTITIONING,
\* PROBING, then LOADING again or DONE.
C25_PhaseOrder ==
    [][ /\ pc = "load"  => pc' \in {"load", "chk"}
        /\ pc = "chk"   => pc' \in {"chk", "sched"}
        /\ pc = "sched" => pc' \in {"sched", "part"}
        /\ pc = "part"  => pc' \in {"part", "probe"}
        /\ pc = "probe" => pc' \in {"probe", "tail"}
        /\ pc = "tail"  => pc' \in {"tail", "head", "done"} ]_vars

\* C25, amended: besides LOADING, SCHEDULING, PARTITIONING, PROBING, then
\* LOADING again or DONE, a LOADING phase can end the run, a SCHEDULING phase
\* without a key goes back to LOADING or ends the run, and a PARTITIONING
\* phase whose scan raises ends the run.  A partition load is entered only
\* from the scheduling of the same iteration, for the key at the tracker
\* front; a probe is entered only from a partition load, and runs against the
\* partition of the key at the tracker front, never an older one.
C25_PhaseOrderAmended ==
    /\ [][ /\ pc = "start" => pc' \in {"start", "head"}
           /\ pc = "head"  => pc' \in {"head", "load", "done"}
           /\ pc = "load"  => pc' \in {"load", "chk"}
           /\ pc = "chk"   => pc' \in {"chk", "sched", "done"}
           /\ pc = "sched" => pc' \in {"sched", "part", "head", "done"}
           /\ pc = "part"  => pc' \in {"part", "probe", "failed"}
           /\ pc = "probe" => pc' \in {"probe", "tail"}
           /\ pc = "tail"  => pc' \in {"tail", "head", "done"}
           /\ pc \in {"done", "failed"} => pc' = pc ]_vars
    /\ [](pc = "part" => (key_queue # <<>> /\ oldest_key = key_queue[1]))
    /\ [](pc = "probe" =>
            /\ key_queue # <<>>
            /\ oldest_key = key_queue[1]
            /\ LET m == RecordsOfKey(key_queue[1])
               IN  disk_buffer = SubSeq(m, 1, Min(vP, Len(m))))

\* C25 witness: the probe of a second iteration is about to run, and the
\* partition of the first iteration was another one.
C25_Witness ==
    /\ pc = "probe"
    /\ partitions_processed = 2
    /\ disk_buffer # <<>>
    /\ \E k \in serviced : k # oldest_key

\* C26 (merge rule): every record a probe emits comes from a resident stream
\* tuple t and a relation record d of the partition; its fields are exactly
\* the fields of t and of d together, a field of d has d's value, a field of
\* t alone has t's value.  The probe leaves the partition, the relation and
\* the stream tuples that stay resident as they were.
C26_MergeRule ==
    [][ (pc = "probe" /\ pc' = "tail") =>
          /\ \A i \in (Len(join_output) + 1)..Len(join_output') :
                LET r == join_output'[i]
                IN  \E t \in ResidentTuples :
                    \E j \in 1..Len(disk_buffer) :
                       LET d == disk_buffer[j]
                       IN  /\ DOMAIN r = DOMAIN t \cup DOMAIN d
                           /\ \A f \in DOMAIN d : r[f] = d[f]
                           /\ \A f \in DOMAIN t \ DOMAIN d : r[f] = t[f]
          /\ disk_buffer' = disk_buffer
          /\ relation_data' = relation_data
          /\ ResidentTuples' \subseteq ResidentTuples ]_vars

\* C26 witness: a record was emitted whose Product_ID, a field of both inputs,
\* is the relation record's and whose orderID is the stream tuple's.
C26_Witness ==
    /\ pc = "tail"
    /\ join_output # <<>>
    /\ LET r == join_output[Len(join_output)]
       IN  /\ DOMAIN r = {"orderID", "Customer_ID", "Product_ID", "Customer_Name"}
           /\ r.Product_ID \in 1..MaxRel
           /\ r.orderID \in 1..MaxTuples
           /\ \E j \in 1..Len(disk_buffer) :
                 /\ disk_buffer[j].Product_ID = r.Product_ID
                 /\ disk_buffer[j].Customer_ID = r.Customer_ID

\* C27 (tuple accounting): tuples_processed is the number of stream tuples
\* resident in the hash index plus tuples_joined, and tuples_joined is the
\* length of the output sequence.
C27_TupleAccounting ==
    /\ tuples_processed = Resident(hash_table) + tuples_joined
    /\ tuples_joined = Len(join_output)

\* C27 witness: of two tuples loaded, a probe has emitted one and the other
\* is still resident.
C27_Witness ==
    /\ pc = "tail"
    /\ tuples_processed = 2
    /\ tuples_joined = 1
    /\ Resident(hash_table) = 1
    /\ Len(join_output) = 1

\* The tracker q without its entry at position i.
WithoutEntry(q, i) == SubSeq(q, 1, i - 1) \o SubSeq(q, i + 1, Len(q))

\* C28 (tracker entries leave only on a match): outside a probe the tracker
\* only grows at its end.  A probe either leaves the tracker as it was, or
\* its partition holds a relation record of a key k that is in the tracker
\* and it removes the first entry of k and nothing else; a probe with an
\* empty partition leaves the tracker as it was.  A front key without any
\* relation record stays at the front in every step.
C28_TrackerRemoval ==
    [][ /\ pc # "probe" => IsPrefix(key_queue, key_queue')
        /\ (pc = "probe" /\ pc' = "tail") =>
              \/ key_queue' = key_queue
              \/ \E j \in 1..Len(disk_buffer) :
                 \E i \in 1..Len(key_queue) :
                    /\ key_queue[i] = JoinKey(disk_buffer[j])
                    /\ \A h \in 1..(i - 1) : key_queue[h] # key_queue[i]
                    /\ key_queue' = WithoutEntry(key_queue, i)
        /\ (key_queue # <<>> /\ RecordsOfKey(key_queue[1]) = <<>>) =>
              (key_queue' # <<>> /\ key_queue'[1] = key_queue[1]) ]_vars

\* C28 witness: one probe has joined two tuples of the front key and removed
\* the first of their two tracker entries; the second entry is still there.
C28_Witness ==
    /\ pc = "tail"
    /\ partitions_processed = 1
    /\ tuples_joined = 2
    /\ key_queue = <<oldest_key>>
    /\ hash_table = <<>>

\* Number of entries of the tracker q that equal k.
CountKey(q, k) == Len(SelectSeq(q, LAMBDA x : x = k))

\* Number of stream tuples of key k resident in the hash index.
RECURSIVE ResidentOfKey(_, _, _)
ResidentOfKey(ht, S, k) ==
    IF S = {} THEN 0
    ELSE LET s == CHOOSE x \in S : TRUE
         IN  Len(SelectSeq(ht[s], LAMBDA t : JoinKey(t) = k))
                 + ResidentOfKey(ht, S \ {s}, k)

\* C29 (resident tuples are tracked): for every key k the tracker holds at
\* least as many entries of k as there are resident stream tuples of key k,
\* and key_queue_map contains k exactly when some resident tuple has key k.
C29_ResidentTracked ==
    /\ \A k \in StreamKeys :
          CountKey(key_queue, k)
              >= ResidentOfKey(hash_table, DOMAIN hash_table, k)
    /\ DOMAIN key_queue_map = {JoinKey(t) : t \in ResidentTuples}

\* C29 witness: a probe has evicted the tuple of the front key and taken the
\* key out of the tracker and of key_queue_map, while the tuple of another
\* key stays resident, tracked and mapped.
C29_Witness ==
    /\ pc = "tail"
    /\ tuples_joined = 1
    /\ Resident(hash_table) = 1
    /\ Len(key_queue) = 1
    /\ key_queue[1] # oldest_key
    /\ DOMAIN key_queue_map = {key_queue[1]}

\* What only the engine thread writes: the hash index, the tracker, the
\* partition, the output, the budget, the counters and execute()'s locals.
engineOwned == <<index, disk_buffer, join_output, w, stats, pc, loaded, oldest_key>>

\* C30 (producer/engine frame): a producer step leaves everything the engine
\* owns unchanged; it at most appends one tuple to the intake queue or sets
\* the completion flag.  An engine step leaves the completion flag and the
\* producer unchanged and at most takes the head off the intake queue.  The
\* completion flag, once set, stays set.
C30_ProducerEngineFrame ==
    [][ /\ prod' # prod =>
              /\ engineOwned' = engineOwned
              /\ \/ stream_buffer' = stream_buffer
                 \/ \E t \in {source[i] : i \in 1..Len(source)} :
                       stream_buffer' = Append(stream_buffer, t)
              /\ stop_flag => stop_flag'
        /\ engineOwned' # engineOwned =>
              /\ prod' = prod
              /\ stop_flag' = stop_flag
              /\ \/ stream_buffer' = stream_buffer
                 \/ stream_buffer # <<>> /\ stream_buffer' = Tail(stream_buffer)
        /\ stop_flag => stop_flag' ]_vars

\* C30 witness: the producer has queued a tuple behind one the engine has
\* already loaded and has set the completion flag, and the engine has probed.
C30_Witness ==
    /\ ppc = "done"
    /\ stop_flag
    /\ pc = "tail"
    /\ tuples_processed = 1
    /\ Len(stream_buffer) = 1
    /\ ~prefilled

====
